---------------------------- MODULE Spec2Model ----------------------------
(***************************************************************************)
(* Model of the LoL game splitter (split_lol_games.py): the repair tiers   *)
(* of ensure_readable_video, the scan loop and segment state machine of    *)
(* detect_segments, main's sequencing of repair, scan and cut, and the     *)
(* OCR passes of extract_clock_seconds; then, each under a specification   *)
(* of its own, step 2 of run_pipeline.py, resumable_upload of              *)
(* upload_youtube.py and the OAuth flow of auth_twitch.py.                 *)
(*                                                                         *)
(* Time.  The code computes t_sec = frame_idx / fps in floating point.     *)
(* The model keeps every time as an exact integer number of units of       *)
(* 1/fpsNum second, where fps = fpsNum / fpsDen: frame i has the time      *)
(* i * fpsDen, and a constant of c seconds is c * fpsNum units.  Clock     *)
(* readings (mm*60+ss) are plain seconds and are only compared with        *)
(* START_THRESHOLD_SEC.                                                    *)
(***************************************************************************)
EXTENDS Integers, Sequences, FiniteSets, TLC

(* ------------------------- program constants --------------------------- *)
SAMPLE_EVERY_SEC == 3
START_THRESHOLD_SEC == 120
MIN_GAP_BETWEEN_GAMES == 90
CLOCK_MISSING_LIMIT == 10
TAIL_AFTER_CLOCK_MISS == 20
MIN_SEGMENT_SEC == 120
\* last_start_time = -9999.0
INITIAL_LAST_START == -9999
\* Python's None, for values that are otherwise >= 0
None == -1

(* ------------------------------ bounds --------------------------------- *)
\* frames a video of the unscripted specification can hold
MaxFrames == 12
\* samples of a video of the two-run specification
MaxTape == 5
\* samples of a video of the one-scan specification
MaxScanTape == 4
\* characters of an OCR text
MaxText == 5
\* VODs found under the download directory
MaxVods == 3
\* requests the upload of a file takes
MaxChunks == 3

VARIABLES
    cfg,                    \* the tunables and the video's metadata
    tape,                   \* the video's samples when fixed in advance, else <<>>
    pc,                     \* position in main / ensure_readable_video / detect_segments
    files,                  \* for each path, whether cv2.VideoCapture can open it
    good_path,              \* path returned by ensure_readable_video
    scan_path,              \* input_path of detect_segments
    cap,                    \* the capture of detect_segments: none, unopened, open, released
    invocations,            \* transcoder (ffmpeg) runs made so far, in order
    exit_status,            \* None while running, then the process's exit status
    frame_idx,
    last_start_time,
    segments,
    open_segment_start,
    last_clock_seen_time,
    clock_missing_count,
    clock_val,              \* result of extract_clock_seconds for the last sample
    segs,                   \* main's segs: the list detect_segments returned
    listed,                 \* the segments main has printed
    cut_i,                  \* enumerate index of cut_segments
    run,                    \* which call of detect_segments is running
    first_result,           \* the list the first call returned
    ocr_pc,                 \* position in extract_clock_seconds
    txt,                    \* txt: what ocr_text returned last
    coarse_calls,           \* ocr_text calls made by pass 1
    fine_calls,             \* ocr_text calls made by pass 2
    ocr_result,             \* what extract_clock_seconds returned
    split_pc,               \* position in step_2_split_all_new_vods
    vods,                   \* vods: the sorted list find_all_vods returned
    limit,                  \* limit, None when not given
    split_done,             \* the VODs split_done.json records as done
    vod_i,                  \* index in vods of the for loop
    count,
    split_runs,             \* runs of the splitter so far, each with its exit status
    upload_pc,              \* position in resumable_upload
    chunks,                 \* requests the upload of the file takes
    progress,               \* requests that went through
    response,               \* response, None until the last request went through
    attempt,
    errors,                 \* e.resp.status of every HttpError caught
    waits,                  \* every wait slept, in seconds
    auth_pc,                \* position of the main thread of auth_twitch.py
    handler_pc,             \* position of the server thread in do_GET
    serving,                \* serve_forever is running
    request,                \* the request do_GET is handling
    expected_state,         \* OAuthHandler.expected_state
    received_code,          \* OAuthHandler.received_code
    event,                  \* OAuthHandler.event is set
    code,                   \* main's local code
    stored,                 \* the requests that reached line 105
    exchanged               \* the code given to exchange_code_for_tokens

mainVars == <<files, good_path, invocations, exit_status, segs, listed, cut_i>>
detectVars == <<scan_path, cap, frame_idx, last_start_time, segments, open_segment_start,
                last_clock_seen_time, clock_missing_count, clock_val>>
harnessVars == <<run, first_result>>
ocrVars == <<ocr_pc, txt, coarse_calls, fine_calls, ocr_result>>
\* the variables of the programs other than main of split_lol_games.py
stepVars == <<split_pc, vods, limit, split_done, vod_i, count, split_runs>>
uploadVars == <<upload_pc, chunks, progress, response, attempt, errors, waits>>
authVars == <<auth_pc, handler_pc, serving, request, expected_state, received_code, event,
              code, stored, exchanged>>
otherVars == <<ocrVars, stepVars, uploadVars, authVars>>
splitterVars == <<cfg, tape, pc, mainVars, detectVars, harnessVars>>
vars == <<splitterVars, otherVars>>

(* ------------------------------ helpers -------------------------------- *)
Min(a, b) == IF a <= b THEN a ELSE b
Max(a, b) == IF a >= b THEN a ELSE b
Last(s) == s[Len(s)]

\* fps = cap.get(cv2.CAP_PROP_FPS) or 30.0
FpsNum == IF cfg.fpsNum = 0 THEN 30 ELSE cfg.fpsNum
FpsDen == IF cfg.fpsNum = 0 THEN 1 ELSE cfg.fpsDen
\* a constant of c seconds, in time units
Sec(c) == c * FpsNum
\* t_sec = frame_idx / fps
TSec(i) == i * FpsDen
\* duration = total_frames / fps
Duration == cfg.total_frames * FpsDen
\* the step of one second, SAMPLE_EVERY_SEC left out
StepOfOneSecond == Max(1, FpsNum \div FpsDen)

\* step = max(1, int(fps * SAMPLE_EVERY_SEC))
Step == Max(1, (FpsNum * SAMPLE_EVERY_SEC) \div FpsDen)

\* The tunables as the module sets them.
DefaultTunables ==
    [START_THRESHOLD_SEC |-> START_THRESHOLD_SEC,
     MIN_GAP_BETWEEN_GAMES |-> MIN_GAP_BETWEEN_GAMES,
     CLOCK_MISSING_LIMIT |-> CLOCK_MISSING_LIMIT,
     TAIL_AFTER_CLOCK_MISS |-> TAIL_AFTER_CLOCK_MISS,
     MIN_SEGMENT_SEC |-> MIN_SEGMENT_SEC]

\* Video metadata: fps = fpsNum / fpsDen and CAP_PROP_FRAME_COUNT.
Meta(n, d, frames) == [fpsNum |-> n, fpsDen |-> d, total_frames |-> frames]

\* Record concatenation.
Join(r, s) == [k \in DOMAIN r \cup DOMAIN s |-> IF k \in DOMAIN r THEN r[k] ELSE s[k]]

\* Small tunables, with the boundary cases of every comparison within reach
\* of MaxFrames frames: a tail shorter and longer than the miss window, a gap
\* that never and that sometimes blocks, a minimum that keeps and that drops.
SmallTunables ==
    [START_THRESHOLD_SEC : {1},
     MIN_GAP_BETWEEN_GAMES : {0, 7},
     CLOCK_MISSING_LIMIT : {1, 2},
     TAIL_AFTER_CLOCK_MISS : {2, 9},
     MIN_SEGMENT_SEC : {4}]

SmallMetas ==
    {Meta(1, d, f) : d \in {1, 2}, f \in {MaxFrames \div 2, MaxFrames}}

Configs == {Join(m, t) : m \in SmallMetas, t \in SmallTunables}

\* What extract_clock_seconds can return for a sample under the tunables c:
\* None, or a reading at or just above the start threshold.
ReadingsOf(c) == {None, c.START_THRESHOLD_SEC, c.START_THRESHOLD_SEC + 1}
ClockInputs == ReadingsOf(cfg)

(* --------------------- the video, free or scripted --------------------- *)
Scripted == tape # <<>>
\* frames of a scripted video: its last frame is its last sample
TapeFrames == (Len(tape) - 1) * Step + 1
\* cap.grab() can return a frame
CanGrab == IF Scripted THEN frame_idx < TapeFrames ELSE frame_idx < MaxFrames
\* cap.grab() can return no frame
CanEnd == IF Scripted THEN frame_idx >= TapeFrames ELSE TRUE
\* what extract_clock_seconds can return for the frame at frame_idx
Readings == IF Scripted THEN {tape[(frame_idx \div Step) + 1]} ELSE ClockInputs

(* --------------------------- detect_segments --------------------------- *)
\* the locals with last_start_time started at 0.0
LocalsStartAtZero ==
    /\ frame_idx' = 0
    /\ last_start_time' = 0
    /\ segments' = <<>>
    /\ open_segment_start' = None
    /\ last_clock_seen_time' = None
    /\ clock_missing_count' = 0

\* the locals with last_start_time kept from the call before
LocalsKeepLastStart ==
    /\ frame_idx' = 0
    /\ last_start_time' = last_start_time
    /\ segments' = <<>>
    /\ open_segment_start' = None
    /\ last_clock_seen_time' = None
    /\ clock_missing_count' = 0

\* lines 139-144: the locals every call starts from
DetectLocals ==
    /\ frame_idx' = 0
    /\ last_start_time' = Sec(INITIAL_LAST_START)
    /\ segments' = <<>>
    /\ open_segment_start' = None
    /\ last_clock_seen_time' = None
    /\ clock_missing_count' = 0

\* the opening rule without its test that no segment is open
OpensWhileOpen(v, t) ==
    /\ v # None
    /\ v <= cfg.START_THRESHOLD_SEC
    /\ t - last_start_time >= Sec(cfg.MIN_GAP_BETWEEN_GAMES)

\* a reading equal to the threshold does not open
OpensBelowThreshold(v, t) ==
    /\ open_segment_start = None
    /\ v # None
    /\ v < cfg.START_THRESHOLD_SEC
    /\ t - last_start_time >= Sec(cfg.MIN_GAP_BETWEEN_GAMES)

\* the opening rule without the debounce
OpensWithoutGap(v, t) ==
    /\ open_segment_start = None
    /\ v # None
    /\ v <= cfg.START_THRESHOLD_SEC

\* lines 170-171: the sample v at time t opens a segment
Opens(v, t) ==
    /\ open_segment_start = None
    /\ v # None
    /\ v <= cfg.START_THRESHOLD_SEC
    /\ t - last_start_time >= Sec(cfg.MIN_GAP_BETWEEN_GAMES)

\* the tail counted from the current sample, not from the last clock seen
EndFromCurrentSample(seen) == Min(TSec(frame_idx) + Sec(cfg.TAIL_AFTER_CLOCK_MISS), Duration)

\* the tail not clamped to the duration of the video
EndWithoutClamp(seen) == seen + Sec(cfg.TAIL_AFTER_CLOCK_MISS)

\* line 178
EndAtMiss(seen) == Min(seen + Sec(cfg.TAIL_AFTER_CLOCK_MISS), Duration)

\* the end-of-stream end computed by the tail rule
EndAtEofByTail == Min(last_clock_seen_time + Sec(cfg.TAIL_AFTER_CLOCK_MISS), Duration)

\* the end put at the frame where the stream stopped
EndAtStoppedFrame == TSec(frame_idx)

\* line 192
EndAtEof == Duration

\* the minimum-duration filter reduced to a non-empty range
KeepsAnyPositive(dur) == dur > 0

\* lines 181, 195
Keeps(dur) == dur >= Sec(cfg.MIN_SEGMENT_SEC)

\* the segment put at the head of the list
EmitAtHead(list, s, e) == <<<<s, e>>>> \o list

\* lines 182, 196
Emit(list, s, e) == Append(list, <<s, e>>)

\* the time of a readable sample not recorded
SeenTimeNotRecorded(v, t) == last_clock_seen_time

\* lines 164-165: last_clock_seen_time after the reading v at time t
SeenTime(v, t) == IF v # None THEN t ELSE last_clock_seen_time

\* a readable sample does not reset the counter
MissCountKeepsOnRead(v) == IF v # None THEN clock_missing_count ELSE clock_missing_count + 1

\* lines 164-168: clock_missing_count after the reading v
MissCount(v) == IF v # None THEN 0 ELSE clock_missing_count + 1

\* the segment closes one miss before the limit
ClosesOneEarly(o, cnt, seen) == o # None /\ cnt + 1 >= cfg.CLOCK_MISSING_LIMIT /\ seen # None

\* lines 176-177: the segment opened at o is closed, cnt samples having
\* missed the clock last seen at seen
Closes(o, cnt, seen) == o # None /\ cnt >= cfg.CLOCK_MISSING_LIMIT /\ seen # None

\* a skipped frame not counted
SkipStays(i) == i

\* line 153: frame_idx += 1 before the continue
SkipTo(i) == i + 1

\* lines 160-186: the loop body for a sampled frame whose reading is v
SampleBody(v) ==
    LET t == TSec(frame_idx)
        seen == SeenTime(v, t)
        cnt == MissCount(v)
        opens == Opens(v, t)
        open1 == IF opens THEN t ELSE open_segment_start
        closes == Closes(open1, cnt, seen)
        end_sec == EndAtMiss(seen)
        dur == end_sec - open1
    IN  /\ clock_val' = v
        /\ last_clock_seen_time' = seen
        /\ last_start_time' = IF opens THEN t ELSE last_start_time
        /\ open_segment_start' = IF closes THEN None ELSE open1
        /\ clock_missing_count' = IF closes THEN 0 ELSE cnt
        /\ segments' = IF closes /\ Keeps(dur)
                          THEN Emit(segments, open1, end_sec)
                          ELSE segments
        /\ frame_idx' = frame_idx + 1

\* lines 130-146: the capture opens
DetectOpen ==
    /\ pc = "detect"
    /\ scan_path' = good_path
    /\ cap' = "open"
    /\ DetectLocals
    /\ clock_val' = None
    /\ pc' = "loop"
    /\ UNCHANGED <<cfg, tape, mainVars, harnessVars, otherVars>>

\* lines 131-132: the capture does not open
DetectOpenFails ==
    /\ pc = "detect"
    /\ ~Scripted
    /\ cap' = "unopened"
    /\ pc' = "done"
    /\ exit_status' = 1
    /\ UNCHANGED <<cfg, tape, files, good_path, invocations, segs, listed, cut_i,
                   scan_path, frame_idx, last_start_time, segments, open_segment_start,
                   last_clock_seen_time, clock_missing_count, clock_val, harnessVars, otherVars>>

\* lines 149-151
GrabFails ==
    /\ pc = "loop"
    /\ CanEnd
    /\ pc' = "after_loop"
    /\ UNCHANGED <<cfg, tape, mainVars, detectVars, harnessVars, otherVars>>

\* lines 152-154
SkipFrame ==
    /\ pc = "loop"
    /\ CanGrab
    /\ frame_idx % Step # 0
    /\ frame_idx' = SkipTo(frame_idx)
    /\ UNCHANGED <<cfg, tape, pc, mainVars, harnessVars, otherVars, scan_path, cap, last_start_time,
                   segments, open_segment_start, last_clock_seen_time,
                   clock_missing_count, clock_val>>

\* lines 156-158
RetrieveFails ==
    /\ pc = "loop"
    /\ CanGrab
    /\ frame_idx % Step = 0
    /\ pc' = "after_loop"
    /\ UNCHANGED <<cfg, tape, mainVars, detectVars, harnessVars, otherVars>>

\* lines 156-187
Sample ==
    /\ pc = "loop"
    /\ CanGrab
    /\ frame_idx % Step = 0
    /\ \E v \in Readings : SampleBody(v)
    /\ UNCHANGED <<cfg, tape, pc, mainVars, harnessVars, otherVars, scan_path, cap>>

\* lines 189-196
AfterLoop ==
    /\ pc = "after_loop"
    /\ segments' = IF open_segment_start # None /\ Keeps(EndAtEof - open_segment_start)
                      THEN Emit(segments, open_segment_start, EndAtEof)
                      ELSE segments
    /\ pc' = "release"
    /\ UNCHANGED <<cfg, tape, mainVars, harnessVars, otherVars, scan_path, cap, frame_idx,
                   last_start_time, open_segment_start, last_clock_seen_time,
                   clock_missing_count, clock_val>>

\* lines 198-199, 232: the list goes to the caller and the locals are gone
Return ==
    /\ pc = "release"
    /\ cap' = "released"
    /\ segs' = segments
    /\ DetectLocals
    /\ clock_val' = None
    /\ pc' = "returned"
    /\ UNCHANGED <<cfg, tape, files, good_path, invocations, exit_status, listed, cut_i,
                   scan_path, harnessVars, otherVars>>

\* lines 156-162: retrieve, crop or extract_clock_seconds raises, or the user
\* interrupts; nothing catches it, in detect_segments or in main
ScanRaises ==
    /\ pc = "loop"
    /\ CanGrab
    /\ ~Scripted
    /\ frame_idx % Step = 0
    /\ pc' = "done"
    /\ exit_status' = 1
    /\ UNCHANGED <<cfg, tape, files, good_path, invocations, segs, listed, cut_i,
                   detectVars, harnessVars, otherVars>>

(* ------------------------ ensure_readable_video ------------------------ *)
\* One ffmpeg run of the repair: its input and its output file.
RepairRun(kind, out) == [kind |-> kind, src |-> "input", out |-> out]

\* What a repair tier can come to: ffmpeg exits 0 and the output opens,
\* ffmpeg exits 0 and the output does not open, ffmpeg fails.
TierOutcomes == {"opens", "unopenable", "failed"}

\* the output file a tier leaves behind
Written(o) == IF o = "failed" THEN "absent" ELSE o

\* lines 97-100: where the direct open leads
AfterDirect(opened) == IF opened THEN "detect" ELSE "remux"

\* the remux tier falling through to the re-encode whatever it came to
RemuxFallsThrough(o) == "reenc"

\* lines 108-115: where the remux tier leads
AfterRemux(o) == IF o = "opens" THEN "detect" ELSE "reenc"

\* a failed re-encode going back to the remux tier
ReencRetriesRemux(o) == IF o = "opens" THEN "detect" ELSE "remux"

\* the scan is started whatever the re-encode gave
ReencProceeds(o) == "detect"

\* lines 122-127: where the re-encode tier leads
AfterReenc(o) == IF o = "opens" THEN "detect" ELSE "done"

\* lines 97-100, 230
EnsureDirect ==
    /\ pc = "ensure"
    /\ pc' = AfterDirect(files["input"] = "opens")
    /\ good_path' = IF files["input"] = "opens" THEN "input" ELSE good_path
    /\ UNCHANGED <<cfg, tape, files, invocations, exit_status, segs, listed, cut_i,
                   detectVars, harnessVars, otherVars>>

\* lines 102-115, 230
Remux ==
    /\ pc = "remux"
    /\ invocations' = Append(invocations, RepairRun("remux", "fixed"))
    /\ \E o \in TierOutcomes :
          /\ files' = [files EXCEPT !["fixed"] = Written(o)]
          /\ pc' = AfterRemux(o)
          /\ good_path' = IF o = "opens" THEN "fixed" ELSE good_path
    /\ UNCHANGED <<cfg, tape, exit_status, segs, listed, cut_i, detectVars, harnessVars, otherVars>>

\* lines 117-127, 230: a failed run raises CalledProcessError, an output
\* that does not open raises RuntimeError; main lets both through
Reencode ==
    /\ pc = "reenc"
    /\ invocations' = Append(invocations, RepairRun("reenc", "reenc"))
    /\ \E o \in TierOutcomes :
          /\ files' = [files EXCEPT !["reenc"] = Written(o)]
          /\ pc' = AfterReenc(o)
          /\ good_path' = IF o = "opens" THEN "reenc" ELSE good_path
          /\ exit_status' = IF o = "opens" THEN exit_status ELSE 1
    /\ UNCHANGED <<cfg, tape, segs, listed, cut_i, detectVars, harnessVars, otherVars>>

(* ------------------------- main, cut_segments -------------------------- *)
\* the decimal digits of n
RECURSIVE Digits(_)
Digits(n) == IF n < 10 THEN <<n>> ELSE Append(Digits(n \div 10), n % 10)

\* line 207: f"Game_{i:02d}.mp4" in the output directory
OutName(i) == <<"Game_">> \o (IF i < 10 THEN <<0>> ELSE <<>>) \o Digits(i) \o <<".mp4">>

\* every cut written to the same file
CutRunOneName(i, seg) == [kind |-> "cut", src |-> good_path, ss |-> seg[1], to |-> seg[2],
                          index |-> i, out |-> OutName(1)]

\* One ffmpeg run of cut_segments.
CutRun(i, seg) == [kind |-> "cut", src |-> good_path, ss |-> seg[1], to |-> seg[2],
                   index |-> i, out |-> OutName(i)]

\* the cuts start without the list having been printed
ListedNothing(list) == <<>>

\* lines 236-238: the list main prints before it cuts
Listed(list) == list

\* lines 233-235
MainNoSegments ==
    /\ pc = "returned"
    /\ segs = <<>>
    /\ pc' = "done"
    /\ exit_status' = 0
    /\ UNCHANGED <<cfg, tape, files, good_path, invocations, segs, listed, cut_i,
                   detectVars, harnessVars, otherVars>>

\* lines 236-239, 203-204
MainListSegments ==
    /\ pc = "returned"
    /\ segs # <<>>
    /\ listed' = Listed(segs)
    /\ pc' = "cut"
    /\ cut_i' = 1
    /\ UNCHANGED <<cfg, tape, files, good_path, invocations, exit_status, segs,
                   detectVars, harnessVars, otherVars>>

\* lines 206-226: subprocess.run(cmd, check=True) for segment cut_i
CutSegment ==
    /\ pc = "cut"
    /\ cut_i <= Len(segs)
    /\ invocations' = Append(invocations, CutRun(cut_i, segs[cut_i]))
    /\ \E ok \in BOOLEAN :
          /\ pc' = IF ok THEN "cut" ELSE "done"
          /\ cut_i' = IF ok THEN cut_i + 1 ELSE cut_i
          /\ exit_status' = IF ok THEN exit_status ELSE 1
    /\ UNCHANGED <<cfg, tape, files, good_path, segs, listed, detectVars, harnessVars, otherVars>>

\* lines 227, 239
CutDone ==
    /\ pc = "cut"
    /\ cut_i > Len(segs)
    /\ pc' = "done"
    /\ exit_status' = 0
    /\ UNCHANGED <<cfg, tape, files, good_path, invocations, segs, listed, cut_i,
                   detectVars, harnessVars, otherVars>>

(* ----------------------- extract_clock_seconds ------------------------- *)
\* preprocess_variants returns 2 inversions x 2 images
VARIANTS == 4
\* cols, rows = 3, 2
COLS == 3
ROWS == 2

\* the characters OCR output is made of here: two digits, the colon, the
\* space, the newline and a letter
Chars == {"5", "9", ":", " ", "\n", "x"}
\* what pytesseract.image_to_string can return
RawTexts == UNION {[1..n -> Chars] : n \in 0..MaxText}

DigitVal == [c \in {"0", "1", "2", "3", "4", "5", "6", "7", "8", "9"} |->
                CASE c = "0" -> 0 [] c = "1" -> 1 [] c = "2" -> 2 [] c = "3" -> 3
                  [] c = "4" -> 4 [] c = "5" -> 5 [] c = "6" -> 6 [] c = "7" -> 7
                  [] c = "8" -> 8 [] c = "9" -> 9]
\* \d
IsDigit(c) == c \in DOMAIN DigitVal
\* \s
IsSpace(c) == c \in {" ", "\n", "\t", "\r"}
\* [:|;]
IsSeparator(c) == c \in {":", "|", ";"}

\* int() of a string of digits
RECURSIVE ToInt(_)
ToInt(s) == IF s = <<>> THEN 0
            ELSE 10 * ToInt(SubSeq(s, 1, Len(s) - 1)) + DigitVal[s[Len(s)]]

\* str.strip()
RECURSIVE Strip(_)
Strip(s) == IF s = <<>> THEN s
            ELSE IF IsSpace(s[1]) THEN Strip(Tail(s))
            ELSE IF IsSpace(s[Len(s)]) THEN Strip(SubSeq(s, 1, Len(s) - 1))
            ELSE s

\* str.replace(" ", "")
RemoveSpaces(s) == SelectSeq(s, LAMBDA c : c # " ")

\* s.isdigit()
AllDigits(s) == s # <<>> /\ \A i \in 1..Len(s) : IsDigit(s[i])

\* line 28: s[a..b-1] matches \s*[:|;]?\s*
MatchesGap(s, a, b) ==
    /\ \A i \in a..(b - 1) : IsSpace(s[i]) \/ IsSeparator(s[i])
    /\ Cardinality({i \in a..(b - 1) : IsSeparator(s[i])}) <= 1

\* line 28: the pattern matches at p with n digits of minutes and the
\* seconds at q
MatchesAt(s, p, n, q) ==
    /\ p + n <= q
    /\ q + 1 <= Len(s)
    /\ \A i \in p..(p + n - 1) : IsDigit(s[i])
    /\ MatchesGap(s, p + n, q)
    /\ IsDigit(s[q])
    /\ IsDigit(s[q + 1])

NoMatch == [found |-> FALSE]

\* MMSS_ANY_RE.search(s) with int(m.group(1)), int(m.group(2)): the
\* leftmost match, two digits of minutes tried before one
Search(s) ==
    LET hits == {h \in (1..Len(s)) \X {1, 2} \X (1..Len(s)) : MatchesAt(s, h[1], h[2], h[3])}
    IN  IF hits = {} THEN NoMatch
        ELSE LET p == CHOOSE i \in {h[1] : h \in hits} : \A h \in hits : i <= h[1]
                 n == IF \E h \in hits : h[1] = p /\ h[2] = 2 THEN 2 ELSE 1
                 q == CHOOSE j \in 1..Len(s) : <<p, n, j>> \in hits
             IN  [found |-> TRUE,
                  mm |-> ToInt(SubSeq(s, p, p + n - 1)),
                  ss |-> ToInt(SubSeq(s, q, q + 1))]

\* the seconds not range-checked
AnySeconds(ss) == TRUE

\* lines 69, 87, 91: 0 <= ss <= 59
ValidSeconds(ss) == 0 <= ss /\ ss <= 59

\* lines 66-70: what a text of pass 1 gives
CoarseValue(t) ==
    LET m == Search(RemoveSpaces(t))
    IN  IF m.found /\ ValidSeconds(m.ss) THEN m.mm * 60 + m.ss ELSE None

\* lines 83-92: what a text of pass 2 gives
FineValue(t) ==
    LET s == RemoveSpaces(t)
        m == Search(s)
        mm == ToInt(SubSeq(s, 1, Len(s) - 2))
        ss == ToInt(SubSeq(s, Len(s) - 1, Len(s)))
    IN  IF ~m.found /\ Len(s) \in {3, 4} /\ AllDigits(s) /\ ValidSeconds(ss)
        THEN mm * 60 + ss
        ELSE IF m.found /\ ValidSeconds(m.ss) THEN m.mm * 60 + m.ss
        ELSE None

\* pass 2 entered as soon as one variant of pass 1 gave nothing
FineAfterFirstMiss(v, k) == IF v # None THEN "returned" ELSE "fine"

\* lines 64-72: where pass 1 goes after its k-th text gave v
AfterCoarse(v, k) ==
    IF v # None THEN "returned" ELSE IF k < VARIANTS THEN "coarse" ELSE "fine"

\* lines 42-43, 65, 82: ocr_text on the next variant
OcrText ==
    /\ ocr_pc \in {"coarse", "fine"}
    /\ ocr_pc = "fine" => fine_calls < COLS * ROWS * VARIANTS
    /\ \E raw \in RawTexts : txt' = Strip(raw)
    /\ coarse_calls' = IF ocr_pc = "coarse" THEN coarse_calls + 1 ELSE coarse_calls
    /\ fine_calls' = IF ocr_pc = "fine" THEN fine_calls + 1 ELSE fine_calls
    /\ ocr_pc' = IF ocr_pc = "coarse" THEN "coarse_txt" ELSE "fine_txt"
    /\ UNCHANGED <<ocr_result, stepVars, uploadVars, authVars, splitterVars>>

\* lines 66-70; the next call overwrites txt, which the model forgets here
CoarseMatch ==
    /\ ocr_pc = "coarse_txt"
    /\ LET v == CoarseValue(txt)
       IN  /\ ocr_pc' = AfterCoarse(v, coarse_calls)
           /\ ocr_result' = v
           /\ txt' = IF v # None THEN txt ELSE <<>>
    /\ UNCHANGED <<coarse_calls, fine_calls, stepVars, uploadVars, authVars, splitterVars>>

\* lines 83-92
FineMatch ==
    /\ ocr_pc = "fine_txt"
    /\ LET v == FineValue(txt)
       IN  /\ ocr_pc' = IF v # None THEN "returned" ELSE "fine"
           /\ ocr_result' = v
           /\ txt' = IF v # None THEN txt ELSE <<>>
    /\ UNCHANGED <<coarse_calls, fine_calls, stepVars, uploadVars, authVars, splitterVars>>

\* line 93
ReturnNone ==
    /\ ocr_pc = "fine"
    /\ fine_calls = COLS * ROWS * VARIANTS
    /\ ocr_pc' = "returned"
    /\ ocr_result' = None
    /\ UNCHANGED <<txt, coarse_calls, fine_calls, stepVars, uploadVars, authVars, splitterVars>>

OcrStart(at) ==
    /\ ocr_pc = at
    /\ txt = <<>>
    /\ coarse_calls = 0
    /\ fine_calls = 0
    /\ ocr_result = None

OcrIdle == OcrStart("idle")

(* ------------------ run_pipeline.py, step 2: the splits ---------------- *)
\* what the splitter's process can exit with
ExitStatuses == {0, 1, 2}
\* a KeyboardInterrupt while the splitter runs: the child ended by SIGINT
Interrupted == -2

\* run_pipeline.py lines 59-61, 139: one run of the splitter on vod v
SplitRun(v, status) == [vod |-> v, status |-> status]

\* the VOD recorded whatever the splitter exited with
MarkedWhateverStatus(v, status) == split_done \cup {v}

\* run_pipeline.py lines 139-140, 77-80: split_done.json after the run
MarkedAfter(v, status) == IF status = 0 THEN split_done \cup {v} ELSE split_done

\* run_pipeline.py line 125
LimitReached == limit # None /\ count >= limit

\* run_pipeline.py lines 124-126: break on the limit
SplitLimitBreak ==
    /\ split_pc = "loop"
    /\ vod_i <= Len(vods)
    /\ LimitReached
    /\ split_pc' = "returned"
    /\ UNCHANGED <<vods, limit, split_done, vod_i, count, split_runs, ocrVars, uploadVars, authVars, splitterVars>>

\* run_pipeline.py lines 127-128, 82-84: continue on a VOD recorded as done
SplitSkipDone ==
    /\ split_pc = "loop"
    /\ vod_i <= Len(vods)
    /\ ~LimitReached
    /\ vods[vod_i] \in split_done
    /\ vod_i' = vod_i + 1
    /\ UNCHANGED <<split_pc, vods, limit, split_done, count, split_runs, ocrVars,
                   uploadVars, authVars, splitterVars>>

\* run_pipeline.py lines 130-145: the splitter runs on the VOD and exits
SplitVod ==
    /\ split_pc = "loop"
    /\ vod_i <= Len(vods)
    /\ ~LimitReached
    /\ vods[vod_i] \notin split_done
    /\ \E status \in ExitStatuses :
          /\ split_runs' = Append(split_runs, SplitRun(vods[vod_i], status))
          /\ split_done' = MarkedAfter(vods[vod_i], status)
          /\ count' = IF status = 0 THEN count + 1 ELSE count
    /\ vod_i' = vod_i + 1
    /\ UNCHANGED <<split_pc, vods, limit, ocrVars, uploadVars, authVars, splitterVars>>

\* run_pipeline.py lines 146-148: the user interrupts the splitter
SplitInterrupted ==
    /\ split_pc = "loop"
    /\ vod_i <= Len(vods)
    /\ ~LimitReached
    /\ vods[vod_i] \notin split_done
    /\ split_runs' = Append(split_runs, SplitRun(vods[vod_i], Interrupted))
    /\ split_pc' = "returned"
    /\ UNCHANGED <<vods, limit, split_done, vod_i, count, ocrVars, uploadVars, authVars, splitterVars>>

\* run_pipeline.py lines 150-152: the list is used up
SplitLoopEnds ==
    /\ split_pc = "loop"
    /\ vod_i > Len(vods)
    /\ split_pc' = "returned"
    /\ UNCHANGED <<vods, limit, split_done, vod_i, count, split_runs, ocrVars, uploadVars, authVars, splitterVars>>

\* run_pipeline.py lines 118-123: n VODs found, those of done recorded by
\* earlier runs, the limit l
StepStart(at, n, done, l) ==
    /\ split_pc = at
    /\ vods = [i \in 1..n |-> i]
    /\ limit = l
    /\ split_done = done
    /\ vod_i = 1
    /\ count = 0
    /\ split_runs = <<>>

StepIdle == StepStart("idle", 0, {}, None)

(* ------------------ upload_youtube.py, resumable_upload ---------------- *)
\* upload_youtube.py line 194: attempt > 5
RETRY_LIMIT == 5
\* upload_youtube.py line 196: wait = 5 * attempt
WAIT_UNIT == 5
\* e.resp.status of the errors of the model
HttpStatuses == {500, 503}
\* response["id"]
VideoIds == {1}

\* the error re-raised at the fifth failure
GivesUpAtFifth(a) == a >= RETRY_LIMIT

\* upload_youtube.py lines 194-195
GivesUp(a) == a > RETRY_LIMIT

\* upload_youtube.py lines 187-191: a request that is not the last goes through
ChunkProgress ==
    /\ upload_pc = "loop"
    /\ progress + 1 < chunks
    /\ progress' = progress + 1
    /\ UNCHANGED <<upload_pc, chunks, response, attempt, errors, waits, ocrVars, stepVars,
                   authVars, splitterVars>>

\* upload_youtube.py lines 187-191, 200-202: the last request goes through
ChunkCompletes ==
    /\ upload_pc = "loop"
    /\ progress + 1 = chunks
    /\ progress' = progress + 1
    /\ \E id \in VideoIds : response' = id
    /\ upload_pc' = "returned"
    /\ UNCHANGED <<chunks, attempt, errors, waits, ocrVars, stepVars, authVars, splitterVars>>

\* upload_youtube.py lines 192-198: a request raises HttpError
ChunkFails ==
    /\ upload_pc = "loop"
    /\ attempt' = attempt + 1
    /\ \E st \in HttpStatuses : errors' = Append(errors, st)
    /\ IF GivesUp(attempt')
       THEN upload_pc' = "raised" /\ waits' = waits
       ELSE upload_pc' = "loop" /\ waits' = Append(waits, WAIT_UNIT * attempt')
    /\ UNCHANGED <<chunks, progress, response, ocrVars, stepVars, authVars, splitterVars>>

\* upload_youtube.py lines 182-186: the upload of a file of n requests
UploadStart(at, n) ==
    /\ upload_pc = at
    /\ chunks = n
    /\ progress = 0
    /\ response = None
    /\ attempt = 0
    /\ errors = <<>>
    /\ waits = <<>>

UploadIdle == UploadStart("idle", 0)

(* --------------------- auth_twitch.py, the OAuth flow ------------------ *)
\* a query value given blank, which parse_qs drops
Blank == 0
\* the state main generated (line 218) and another one
GoodState == 7
BadState == 8
\* the codes a request can carry
Codes == {1, 2}

\* a request: its path, and code and state as given in the query (None: absent)
Requests ==
    [path : {"/callback", "/other"},
     code : {None, Blank} \cup Codes,
     state : {None, Blank, GoodState, BadState}]
NoRequest == [path |-> "", code |-> None, state |-> None]

\* auth_twitch.py lines 96-98: qs.get(k, [None])[0] after parse_qs
QueryValue(v) == IF v = Blank THEN None ELSE v

\* the request accepted whatever its state
AcceptsAnyState(r) ==
    /\ r.path = "/callback"
    /\ QueryValue(r.code) # None

\* auth_twitch.py lines 91, 100: the request passes both tests
Accepts(r) ==
    /\ r.path = "/callback"
    /\ QueryValue(r.code) # None
    /\ QueryValue(r.state) # None
    /\ QueryValue(r.state) = expected_state

\* auth_twitch.py lines 218-221, 114-121
StartLocalServer ==
    /\ auth_pc = "start"
    /\ expected_state' = GoodState
    /\ received_code' = None
    /\ event' = FALSE
    /\ serving' = TRUE
    /\ auth_pc' = "wait"
    /\ UNCHANGED <<handler_pc, request, code, stored, exchanged, ocrVars, stepVars,
                   uploadVars, splitterVars>>

\* auth_twitch.py line 230: event.wait returns True
WaitReturns ==
    /\ auth_pc = "wait"
    /\ event
    /\ auth_pc' = "read"
    /\ UNCHANGED <<handler_pc, serving, request, expected_state, received_code, event,
                   code, stored, exchanged, ocrVars, stepVars, uploadVars, splitterVars>>

\* auth_twitch.py lines 230-233: the 300 s pass with the event not set
WaitTimesOut ==
    /\ auth_pc = "wait"
    /\ ~event
    /\ auth_pc' = "timed_out"
    /\ UNCHANGED <<handler_pc, serving, request, expected_state, received_code, event,
                   code, stored, exchanged, ocrVars, stepVars, uploadVars, splitterVars>>

\* auth_twitch.py line 235
ReadCode ==
    /\ auth_pc = "read"
    /\ code' = received_code
    /\ auth_pc' = "shutdown"
    /\ UNCHANGED <<handler_pc, serving, request, expected_state, received_code, event,
                   stored, exchanged, ocrVars, stepVars, uploadVars, splitterVars>>

\* auth_twitch.py lines 231, 236: httpd.shutdown() returns once serve_forever
\* has left its loop, the request in hand finished
Shutdown ==
    /\ auth_pc \in {"shutdown", "timed_out"}
    /\ handler_pc = "idle"
    /\ serving' = FALSE
    /\ auth_pc' = IF auth_pc = "shutdown" THEN "exchange" ELSE "exited"
    /\ UNCHANGED <<handler_pc, request, expected_state, received_code, event, code,
                   stored, exchanged, ocrVars, stepVars, uploadVars, splitterVars>>

\* auth_twitch.py lines 238-243
ExchangeCode ==
    /\ auth_pc = "exchange"
    /\ exchanged' = code
    /\ auth_pc' = "done"
    /\ UNCHANGED <<handler_pc, serving, request, expected_state, received_code, event,
                   code, stored, ocrVars, stepVars, uploadVars, splitterVars>>

\* auth_twitch.py lines 89-103: a request answered 404 or 400
HandleRejected ==
    /\ serving
    /\ handler_pc = "idle"
    /\ \E r \in Requests : ~Accepts(r) /\ request' = r
    /\ UNCHANGED <<auth_pc, handler_pc, serving, expected_state, received_code, event,
                   code, stored, exchanged, ocrVars, stepVars, uploadVars, splitterVars>>

\* auth_twitch.py lines 89-100: a request passes the tests
HandleAccepted ==
    /\ serving
    /\ handler_pc = "idle"
    /\ \E r \in Requests : Accepts(r) /\ request' = r
    /\ handler_pc' = "accepted"
    /\ UNCHANGED <<auth_pc, serving, expected_state, received_code, event, code, stored,
                   exchanged, ocrVars, stepVars, uploadVars, splitterVars>>

\* auth_twitch.py line 105
StoreCode ==
    /\ handler_pc = "accepted"
    /\ received_code' = QueryValue(request.code)
    /\ stored' = stored \cup {request}
    /\ handler_pc' = "stored"
    /\ UNCHANGED <<auth_pc, serving, request, expected_state, event, code, exchanged,
                   ocrVars, stepVars, uploadVars, splitterVars>>

\* auth_twitch.py lines 106-109
SetEvent ==
    /\ handler_pc = "stored"
    /\ event' = TRUE
    /\ handler_pc' = "idle"
    /\ UNCHANGED <<auth_pc, serving, request, expected_state, received_code, code, stored,
                   exchanged, ocrVars, stepVars, uploadVars, splitterVars>>

\* auth_twitch.py lines 85-87: the class attributes, no thread started
AuthStart(at) ==
    /\ auth_pc = at
    /\ handler_pc = "idle"
    /\ serving = FALSE
    /\ request = NoRequest
    /\ expected_state = Blank
    /\ received_code = None
    /\ event = FALSE
    /\ code = None
    /\ stored = {}
    /\ exchanged = None

(* --------------------------- specifications ---------------------------- *)
\* The state before main runs: the metadata and tunables c, the scripted
\* samples s, the input file's state f, the position at.
StartSplitter(c, s, f, at) ==
    /\ cfg = c
    /\ tape = s
    /\ pc = at
    /\ files = [p \in {"input", "fixed", "reenc"} |-> IF p = "input" THEN f ELSE "absent"]
    /\ good_path = IF at = "ensure" THEN "none" ELSE "input"
    /\ scan_path = "none"
    /\ cap = "none"
    /\ listed = <<>>
    /\ invocations = <<>>
    /\ exit_status = None
    /\ segs = <<>>
    /\ cut_i = 0
    /\ frame_idx = 0
    /\ last_start_time = Sec(INITIAL_LAST_START)
    /\ segments = <<>>
    /\ open_segment_start = None
    /\ last_clock_seen_time = None
    /\ clock_missing_count = 0
    /\ clock_val = None
    /\ run = 1
    /\ first_result = <<>>

\* the other programs not running
OthersIdle == OcrIdle /\ StepIdle /\ UploadIdle /\ AuthStart("idle")

Start(c, s, f, at) == StartSplitter(c, s, f, at) /\ OthersIdle

\* main of split_lol_games.py not running, for the other programs
SplitterIdle == StartSplitter(Join(Meta(0, 1, 0), DefaultTunables), <<>>, "absent", "idle")

\* main: repair, scan, cut
Repair == EnsureDirect \/ Remux \/ Reencode
Cut == MainNoSegments \/ MainListSegments \/ CutSegment \/ CutDone
\* the scan of a video that opens and decodes
Scan == DetectOpen \/ GrabFails \/ SkipFrame \/ Sample \/ AfterLoop \/ Return

\* main on any video and any of the small configurations
Init == \E c \in Configs, f \in {"opens", "unopenable"} : Start(c, <<>>, f, "ensure")

Next == Repair \/ Scan \/ DetectOpenFails \/ RetrieveFails \/ ScanRaises \/ Cut

Spec == Init /\ [][Next]_vars

(* A scan of a stream that holds at most one readable sample. *)
SampleIsolated ==
    /\ Sample
    /\ last_clock_seen_time = None \/ clock_val' = None

InitIsolated == \E c \in Configs : Start(c, <<>>, "opens", "detect")

NextIsolated ==
    DetectOpen \/ GrabFails \/ SkipFrame \/ RetrieveFails \/ SampleIsolated \/ AfterLoop
    \/ Return

SpecIsolated == InitIsolated /\ [][NextIsolated]_vars

(* Scans of two scripted videos under the tunables as the module sets them. *)
Fill(n, v) == [i \in 1..n |-> v]

\* 1 fps, a sample every 3 s: t = 0, 3, 6, 9 read 125, 118, 95, 70; t = 12..297
\* read v; the 12 samples t = 300..333 are unreadable; the reading 5 follows
\* at the next sample, t = 336 (12 misses from t = 300 already take t = 333).
C6Tape(v) == <<125, 118, 95, 70>> \o Fill(96, v) \o Fill(12, None) \o <<5>>
C6Fills == {70, 600}
C6Tapes == {C6Tape(v) : v \in C6Fills}

\* 0.6 fps, so step = 1 and a sample every 5/3 s: a game from frame 0 whose
\* clock is lost after frame 72, and a next game whose clock shows at frame 83.
LowFpsTape == <<5>> \o Fill(72, 600) \o Fill(10, None) \o <<5>> \o Fill(72, 600)

InitScripts ==
    \/ \E s \in C6Tapes :
          Start(Join(Meta(1, 1, (Len(s) - 1) * 3 + 1), DefaultTunables), s, "opens", "detect")
    \/ Start(Join(Meta(3, 5, Len(LowFpsTape)), DefaultTunables), LowFpsTape, "opens",
             "detect")

SpecScripts == InitScripts /\ [][Scan]_vars

(* detect_segments called twice on the same video. *)
CallAgain ==
    /\ pc = "returned"
    /\ run = 1
    /\ first_result' = segs
    /\ run' = 2
    /\ pc' = "detect"
    /\ UNCHANGED <<cfg, tape, mainVars, detectVars, otherVars>>

InitTwice ==
    \E c \in Configs, n \in 1..MaxTape :
        \E s \in [1..n -> ReadingsOf(c)] : Start(c, s, "opens", "detect")

NextTwice == Scan \/ CallAgain

SpecTwice == InitTwice /\ [][NextTwice]_vars

(* One scan of a video whose samples are fixed, any of which may fail to  *)
(* decode; the program, single-threaded, keeps taking its next step.       *)
InitScan ==
    \E c \in Configs, n \in 1..MaxScanTape :
        \E s \in [1..n -> ReadingsOf(c)] : Start(c, s, "opens", "detect")

NextScan == Scan \/ RetrieveFails

SpecScan == InitScan /\ [][NextScan]_vars /\ WF_vars(NextScan)

(* extract_clock_seconds on one image, whatever the OCR returns. *)
InitOcr ==
    SplitterIdle /\ OcrStart("coarse") /\ StepIdle /\ UploadIdle /\ AuthStart("idle")

NextOcr == OcrText \/ CoarseMatch \/ FineMatch \/ ReturnNone

SpecOcr == InitOcr /\ [][NextOcr]_vars

(* step_2_split_all_new_vods on a few VODs, some recorded by earlier runs. *)
InitStep ==
    /\ SplitterIdle
    /\ OcrIdle
    /\ UploadIdle
    /\ AuthStart("idle")
    /\ \E n \in 1..MaxVods, l \in {None} \cup (0..MaxVods) :
          \E done \in SUBSET (1..n) : StepStart("loop", n, done, l)

NextStep ==
    SplitLimitBreak \/ SplitSkipDone \/ SplitVod \/ SplitInterrupted \/ SplitLoopEnds

SpecStep == InitStep /\ [][NextStep]_vars

(* resumable_upload of one file; the function keeps taking its next step. *)
InitUpload ==
    /\ SplitterIdle
    /\ OcrIdle
    /\ StepIdle
    /\ AuthStart("idle")
    /\ \E n \in 1..MaxChunks : UploadStart("loop", n)

NextUpload == ChunkProgress \/ ChunkCompletes \/ ChunkFails

SpecUpload == InitUpload /\ [][NextUpload]_vars /\ WF_vars(NextUpload)

(* The OAuth flow: the main thread and the server thread, interleaved. *)
InitAuth == SplitterIdle /\ OcrIdle /\ StepIdle /\ UploadIdle /\ AuthStart("start")

MainThread ==
    StartLocalServer \/ WaitReturns \/ WaitTimesOut \/ ReadCode \/ Shutdown \/ ExchangeCode
ServerThread == HandleRejected \/ HandleAccepted \/ StoreCode \/ SetEvent

NextAuth == MainThread \/ ServerThread

SpecAuth == InitAuth /\ [][NextAuth]_vars

(* ------------------------------- claims -------------------------------- *)
SegIdx == 1..Len(segments)
Start_(seg) == seg[1]
End_(seg) == seg[2]
Scanning == pc \in {"loop", "after_loop", "release"}
Kinds == [i \in 1..Len(invocations) |-> invocations[i].kind]

\* C1: every segment in the list, whether the missing-clock rule or the end
\* of the stream closed it, lasts at least MIN_SEGMENT_SEC.
SegmentsLongEnough ==
    \A i \in SegIdx : End_(segments[i]) - Start_(segments[i]) >= Sec(cfg.MIN_SEGMENT_SEC)

\* a list holding a segment closed by the missing-clock rule and then one
\* closed at the end of the stream
BothClosuresEmitted ==
    /\ pc = "release"
    /\ Len(segments) = 2
    /\ open_segment_start # None
    /\ Last(segments) = <<open_segment_start, Duration>>

\* C2: consecutive segments of the list do not overlap: a.end <= b.start.
NoOverlap ==
    \A i \in SegIdx : i < Len(segments) => End_(segments[i]) <= Start_(segments[i + 1])

\* C3: the list only grows at its end, one closed segment at a time, and its
\* start values are strictly increasing.
StartsIncreasing ==
    \A i \in SegIdx, j \in SegIdx : i < j => Start_(segments[i]) < Start_(segments[j])

AppendOnly ==
    \/ segments' = segments
    \/ pc \in {"detect", "release"} /\ segments' = <<>>
    \/ /\ Len(segments') = Len(segments) + 1
       /\ SubSeq(segments', 1, Len(segments)) = segments

ChronologicalNoDuplicates == []StartsIncreasing /\ [][AppendOnly]_vars

TwoSegmentsListed == Len(segments) = 2 /\ pc = "loop"

\* C4: a sample whose clock is readable and at or below START_THRESHOLD_SEC,
\* arriving while a segment is open, leaves open_segment_start and
\* last_start_time as they were.
NoOpenWhileOpen ==
    [][(/\ pc = "loop"
        /\ open_segment_start # None
        /\ frame_idx % Step = 0
        /\ frame_idx' = frame_idx + 1
        /\ clock_val' # None
        /\ clock_val' <= cfg.START_THRESHOLD_SEC)
       => (/\ open_segment_start' = open_segment_start
           /\ last_start_time' = last_start_time)]_vars

\* the last sample read a low clock while a segment was open, the debounce
\* gap since the opening having elapsed
LowReadingWhileOpen ==
    /\ pc = "loop"
    /\ open_segment_start # None
    /\ clock_val # None
    /\ clock_val <= cfg.START_THRESHOLD_SEC
    /\ last_clock_seen_time > open_segment_start
    /\ cfg.MIN_GAP_BETWEEN_GAMES > 0
    /\ last_clock_seen_time - last_start_time >= Sec(cfg.MIN_GAP_BETWEEN_GAMES)

\* C5: when the stream ends with a segment open, the segment ends at the
\* video's duration and is in the list exactly when
\* duration - open_segment_start >= MIN_SEGMENT_SEC.
EofClosesAtDuration ==
    (pc = "release" /\ open_segment_start # None) =>
        IF Duration - open_segment_start >= Sec(cfg.MIN_SEGMENT_SEC)
        THEN segments # <<>> /\ Last(segments) = <<open_segment_start, Duration>>
        ELSE \A i \in SegIdx : Start_(segments[i]) # open_segment_start

\* the stream ended with a segment open whose end by the tail rule would
\* have been earlier than the duration
EofSegmentEmitted ==
    /\ pc = "release"
    /\ open_segment_start # None
    /\ segments # <<>>
    /\ Last(segments) = <<open_segment_start, Duration>>
    /\ last_clock_seen_time + Sec(cfg.TAIL_AFTER_CLOCK_MISS) < Duration

\* C6: on the scripted stream (0,125),(3,118),(6,95),(9,70),... under the
\* module's tunables the first segment opens at t = 6.
IsC6 == tape \in C6Tapes

FirstOpensAtSix ==
    (IsC6 /\ Scanning) =>
        /\ frame_idx <= 6 => open_segment_start = None
        /\ (open_segment_start # None /\ segments = <<>>) => open_segment_start = TSec(6)

\* C6 as amended: the first segment opens at t = 3, the first sample whose
\* reading (118) is <= 120.
FirstOpensAtThree ==
    (IsC6 /\ Scanning) =>
        IF frame_idx <= 3
        THEN open_segment_start = None /\ segments = <<>>
        ELSE IF segments = <<>>
             THEN open_segment_start = TSec(3)
             ELSE Start_(segments[1]) = TSec(3)

OpenedByReading118 ==
    /\ IsC6
    /\ pc = "loop"
    /\ clock_val = 118
    /\ open_segment_start = TSec(3)
    /\ last_start_time = TSec(3)

\* C7: a stream whose only readable sample reads a clock at or below
\* START_THRESHOLD_SEC and is followed by at least CLOCK_MISSING_LIMIT
\* unreadable samples, with min(t + TAIL, duration) - t < MIN_SEGMENT_SEC,
\* gives an empty list.
MissesAfter(t) ==
    Cardinality({i \in 0..(frame_idx - 1) : i % Step = 0 /\ TSec(i) > t})

IsolatedFalseStart ==
    /\ pc = "release"
    /\ last_clock_seen_time # None
    /\ last_start_time = last_clock_seen_time
    /\ MissesAfter(last_clock_seen_time) >= cfg.CLOCK_MISSING_LIMIT
    /\ Min(last_clock_seen_time + Sec(cfg.TAIL_AFTER_CLOCK_MISS), Duration)
         - last_clock_seen_time < Sec(cfg.MIN_SEGMENT_SEC)

IsolatedFalseStartDropped == IsolatedFalseStart => segments = <<>>

IsolatedFalseStartSeen == IsolatedFalseStart /\ segments = <<>> /\ frame_idx > 1

\* C8: the second call of detect_segments on the same samples under the
\* same configuration returns the list the first call returned.
SecondRunSameList == (run = 2 /\ pc = "returned") => segs = first_result

SecondRunReturnedSegments ==
    /\ run = 2
    /\ pc = "returned"
    /\ segs # <<>>
    /\ segs = first_result

\* C9: when the direct open fails and the remuxed file opens,
\* ensure_readable_video returns the remuxed file, the scan runs on it, and
\* no re-encode run is made.
RemuxedFileUsed ==
    (files["input"] # "opens" /\ files["fixed"] = "opens") =>
        /\ good_path = "fixed"
        /\ \A i \in 1..Len(invocations) : Kinds[i] # "reenc"
        /\ Scanning => scan_path = "fixed"

ScanOnRemuxedFile ==
    /\ files["input"] # "opens"
    /\ files["fixed"] = "opens"
    /\ pc = "loop"
    /\ frame_idx > 0
    /\ scan_path = "fixed"
    /\ Kinds = <<"remux">>

\* C10: the tiers run in the order direct open, remux, re-encode, each at
\* most once and only after the tier before it failed; when the re-encode
\* fails too the run ends in error and no other transcoder run is made.
RepairTiersInOrder ==
    /\ pc = "ensure" => invocations = <<>>
    /\ \A i \in 1..Len(invocations) :
          /\ Kinds[i] = "remux" => i = 1 /\ files["input"] # "opens"
          /\ Kinds[i] = "reenc" =>
                i = 2 /\ Kinds[1] = "remux" /\ files["fixed"] # "opens"
    /\ (Len(invocations) >= 2 /\ Kinds[2] = "reenc" /\ files["reenc"] # "opens") =>
          pc = "done" /\ exit_status = 1 /\ Len(invocations) = 2

AllTiersFailed ==
    /\ Kinds = <<"remux", "reenc">>
    /\ files["reenc"] # "opens"
    /\ pc = "done"
    /\ exit_status = 1

\* the runs of cut_segments, in the order they were made
CutRuns == SelectSeq(invocations, LAMBDA r : r.kind = "cut")

\* a step of the loop that samples frame frame_idx
SampleStep ==
    /\ pc = "loop"
    /\ pc' = "loop"
    /\ frame_idx % Step = 0
    /\ frame_idx' = frame_idx + 1

\* C11: a cut that fails does not abort the batch: once cut_segments has
\* ended, every segment of the list has had its transcoder run.
CutBatchRunsToEnd ==
    (pc = "done" /\ listed # <<>>) => Len(CutRuns) = Len(segs)

\* C12: when all cuts of a list of n segments succeed there are exactly n
\* cut runs, the i-th with the start and end of the i-th segment and the
\* output file named by i, and the n output files are pairwise distinct.
AllCutsSucceeded == pc = "done" /\ exit_status = 0 /\ segs # <<>>

EachSegmentCutOnce ==
    AllCutsSucceeded =>
        /\ Len(CutRuns) = Len(segs)
        /\ \A i \in 1..Len(CutRuns) :
              /\ CutRuns[i].index = i
              /\ CutRuns[i].ss = Start_(segs[i])
              /\ CutRuns[i].to = End_(segs[i])
              /\ CutRuns[i].src = good_path
              /\ CutRuns[i].out = OutName(i)
        /\ \A i, j \in 1..Len(CutRuns) : i # j => CutRuns[i].out # CutRuns[j].out

TwoSegmentsCut ==
    /\ AllCutsSucceeded
    /\ Len(segs) >= 2
    /\ Len(CutRuns) = Len(segs)

\* C13: when detect_segments returned an empty list the run ends with a
\* non-zero exit status and without a cut.
ZeroSegmentsExitNonZero ==
    (pc = "done" /\ cap = "released" /\ segs = <<>>) =>
        exit_status # 0 /\ CutRuns = <<>>

\* C14: when the source does not open and the remux and the re-encode both
\* fail, the run has ended in error and nothing of the scan or of the cut
\* has happened: no capture, no sample, no reading, no segment, no cut.
BothTiersFailed ==
    /\ files["input"] # "opens"
    /\ Len(invocations) >= 2
    /\ Kinds[1] = "remux"
    /\ Kinds[2] = "reenc"
    /\ files["fixed"] # "opens"
    /\ files["reenc"] # "opens"

UnreadableSourceAborts ==
    BothTiersFailed =>
        /\ pc = "done"
        /\ exit_status = 1
        /\ scan_path = "none"
        /\ cap = "none"
        /\ frame_idx = 0
        /\ clock_val = None
        /\ segments = <<>>
        /\ segs = <<>>
        /\ listed = <<>>
        /\ CutRuns = <<>>

RepairExhausted ==
    /\ BothTiersFailed
    /\ pc = "done"
    /\ cap = "none"
    /\ Len(invocations) = 2

\* C15: a cut run exists only once detect_segments has returned (its
\* capture released, its list handed to main) and main has printed that
\* list; every cut is of a segment of that list.
NoCutBeforeScanEnds ==
    CutRuns # <<>> =>
        /\ pc \in {"cut", "done"}
        /\ cap = "released"
        /\ segs # <<>>
        /\ listed = segs
        /\ \A i \in 1..Len(CutRuns) :
              /\ CutRuns[i].index \in 1..Len(segs)
              /\ <<CutRuns[i].ss, CutRuns[i].to>> = segs[CutRuns[i].index]

FirstCutStarted ==
    /\ pc = "cut"
    /\ Len(CutRuns) = 1
    /\ Len(segs) >= 2
    /\ listed = segs

\* C16: once detect_segments has been left, by return or by an error, its
\* capture is not left open.
HandleReleasedOnExit ==
    pc \in {"returned", "cut", "done"} => cap # "open"

\* C17: a sample taken while no segment is open opens one exactly when its
\* reading is present, at most START_THRESHOLD_SEC and at least
\* MIN_GAP_BETWEEN_GAMES after last_start_time; then open_segment_start and
\* last_start_time are the time of the sample, otherwise both are unchanged.
OpensWhenIdle ==
    [][(SampleStep /\ open_segment_start = None) =>
          LET v == clock_val'
              t == TSec(frame_idx)
          IN  IF /\ v # None
                 /\ v <= cfg.START_THRESHOLD_SEC
                 /\ t - last_start_time >= Sec(cfg.MIN_GAP_BETWEEN_GAMES)
              THEN open_segment_start' = t /\ last_start_time' = t
              ELSE open_segment_start' = None /\ last_start_time' = last_start_time]_vars

OpenedAtThreshold ==
    /\ pc = "loop"
    /\ frame_idx > 0
    /\ clock_val = cfg.START_THRESHOLD_SEC
    /\ open_segment_start = TSec(frame_idx - 1)
    /\ last_start_time = open_segment_start
    /\ segments # <<>>

\* C18: an open segment has fewer than CLOCK_MISSING_LIMIT misses counted,
\* and a sample closes it exactly when the sample is unreadable and is the
\* CLOCK_MISSING_LIMIT-th miss in a row.
ClosesAtLimit ==
    /\ [](open_segment_start # None => clock_missing_count < cfg.CLOCK_MISSING_LIMIT)
    /\ [][(SampleStep /\ open_segment_start # None) =>
             (open_segment_start' = None <=>
                 /\ clock_val' = None
                 /\ clock_missing_count + 1 = cfg.CLOCK_MISSING_LIMIT)]_vars

MissBelowLimitStaysOpen ==
    /\ pc = "loop"
    /\ open_segment_start # None
    /\ cfg.CLOCK_MISSING_LIMIT = 2
    /\ clock_missing_count = 1
    /\ clock_val = None

\* C19: the sample that closes a segment by the missing-clock rule ends it
\* at min(last_clock_seen_time + TAIL_AFTER_CLOCK_MISS, duration), where
\* last_clock_seen_time is the time of the sample CLOCK_MISSING_LIMIT samples
\* earlier; the segment is appended when it lasts MIN_SEGMENT_SEC or more
\* and dropped otherwise, and no segment is open and the counter is 0 after.
MissClosure ==
    [][(SampleStep /\ open_segment_start # None /\ open_segment_start' = None) =>
          LET end_sec == Min(last_clock_seen_time + Sec(cfg.TAIL_AFTER_CLOCK_MISS), Duration)
          IN  /\ last_clock_seen_time = TSec(frame_idx - cfg.CLOCK_MISSING_LIMIT * Step)
              /\ last_clock_seen_time' = last_clock_seen_time
              /\ segments' = IF end_sec - open_segment_start >= Sec(cfg.MIN_SEGMENT_SEC)
                             THEN Append(segments, <<open_segment_start, end_sec>>)
                             ELSE segments
              /\ clock_missing_count' = 0]_vars

MissClosureClamped ==
    /\ pc = "loop"
    /\ open_segment_start = None
    /\ clock_val = None
    /\ clock_missing_count = 0
    /\ last_clock_seen_time # None
    /\ last_clock_seen_time + Sec(cfg.TAIL_AFTER_CLOCK_MISS) > Duration
    /\ segments # <<>>
    /\ End_(Last(segments)) = Duration

\* C20: a sample taken while a segment is open: a readable one sets the
\* counter to 0 and last_clock_seen_time to its time; an unreadable one
\* leaves last_clock_seen_time alone and adds 1 to the counter, the sum
\* being what the counter holds after, or CLOCK_MISSING_LIMIT when the
\* sample closes the segment and the closure resets the counter.
CounterTracksReadings ==
    [][(SampleStep /\ open_segment_start # None) =>
          IF clock_val' # None
          THEN /\ clock_missing_count' = 0
               /\ last_clock_seen_time' = TSec(frame_idx)
          ELSE /\ last_clock_seen_time' = last_clock_seen_time
               /\ IF open_segment_start' # None
                  THEN clock_missing_count' = clock_missing_count + 1
                  ELSE /\ clock_missing_count + 1 = cfg.CLOCK_MISSING_LIMIT
                       /\ clock_missing_count' = 0]_vars

MissCounted ==
    /\ pc = "loop"
    /\ open_segment_start # None
    /\ clock_val = None
    /\ clock_missing_count = 1
    /\ frame_idx > Step
    /\ last_clock_seen_time = TSec(frame_idx - 1 - Step)

\* C21: inside the loop every step moves to the next frame; the variables
\* of the state machine change only at a frame whose index is a multiple of
\* max(1, int(fps * SAMPLE_EVERY_SEC)), a readable sample is stamped
\* frame_idx / fps, later than every stamp before it, and a skipped frame
\* changes none of the variables.
MachineVars == <<last_start_time, segments, open_segment_start, last_clock_seen_time,
                 clock_missing_count, clock_val>>

SamplesInOrder ==
    [][(pc = "loop" /\ pc' = "loop") =>
          LET step == Max(1, (FpsNum * SAMPLE_EVERY_SEC) \div FpsDen)
          IN  /\ frame_idx' = frame_idx + 1
              /\ frame_idx % step # 0 => MachineVars' = MachineVars
              /\ frame_idx % step = 0 =>
                    IF clock_val' # None
                    THEN /\ last_clock_seen_time' = frame_idx * FpsDen
                         /\ last_clock_seen_time' > last_clock_seen_time
                    ELSE last_clock_seen_time' = last_clock_seen_time]_vars

SkippedAfterSample ==
    /\ pc = "loop"
    /\ Step = 3
    /\ frame_idx = 5
    /\ clock_val # None
    /\ last_clock_seen_time = TSec(3)

\* C24: while a segment is open last_clock_seen_time is set and is at or
\* after open_segment_start; the sample that opens a segment leaves the
\* counter at 0; and a miss that brings the counter of an open segment to
\* CLOCK_MISSING_LIMIT closes it at that sample.
OpenHasClockSeen ==
    /\ [](open_segment_start # None =>
             /\ last_clock_seen_time # None
             /\ last_clock_seen_time >= open_segment_start)
    /\ [][(SampleStep /\ open_segment_start = None /\ open_segment_start' # None) =>
             clock_missing_count' = 0]_vars
    /\ [][(/\ SampleStep
           /\ open_segment_start # None
           /\ clock_val' = None
           /\ clock_missing_count + 1 >= cfg.CLOCK_MISSING_LIMIT) =>
             open_segment_start' = None]_vars

OpenedAfterIdleSamples ==
    /\ pc = "loop"
    /\ Step = 1
    /\ frame_idx >= 3
    /\ open_segment_start = TSec(frame_idx - 1)
    /\ last_clock_seen_time = open_segment_start
    /\ clock_missing_count = 0
    /\ segments = <<>>

\* C25: last_start_time changes only when a segment opens, to the time of
\* that sample and at least MIN_GAP_BETWEEN_GAMES after its value before, so
\* it is kept when a segment is discarded; emitted starts are that far
\* apart; a low reading closer than that to the last opening opens nothing.
DebounceFromLastOpening ==
    /\ [][SampleStep =>
             LET t == TSec(frame_idx)
                 low == clock_val' # None /\ clock_val' <= cfg.START_THRESHOLD_SEC
             IN  /\ \/ last_start_time' = last_start_time
                    \/ /\ last_start_time' = t
                       /\ open_segment_start' = t
                       /\ t - last_start_time >= Sec(cfg.MIN_GAP_BETWEEN_GAMES)
                 /\ (low /\ t - last_start_time < Sec(cfg.MIN_GAP_BETWEEN_GAMES)) =>
                       /\ open_segment_start' = open_segment_start
                       /\ last_start_time' = last_start_time]_vars
    /\ [](\A i \in SegIdx, j \in SegIdx :
             i < j => Start_(segments[j]) - Start_(segments[i])
                         >= Sec(cfg.MIN_GAP_BETWEEN_GAMES))

LowReadingAfterFalseStart ==
    /\ pc = "loop"
    /\ frame_idx > 0
    /\ open_segment_start = None
    /\ segments = <<>>
    /\ last_start_time >= 0
    /\ clock_val # None
    /\ clock_val <= cfg.START_THRESHOLD_SEC
    /\ TSec(frame_idx - 1) - last_start_time < Sec(cfg.MIN_GAP_BETWEEN_GAMES)

\* C26: a scan of a finite video returns; until then a segment is resolved
\* only while open and once, by the missing-clock rule (appended or
\* dropped, and none open after) or by the end-of-stream rule (appended or
\* dropped, and nothing sampled after); the list changes in no other step,
\* and what end of stream found open and long enough is in the list returned.
ResolvedBy(end_sec) ==
    \/ segments' = segments
    \/ segments' = Append(segments, <<open_segment_start, end_sec>>)

ScanResolvesEveryOpening ==
    /\ <>(pc = "returned")
    /\ [][(SampleStep /\ open_segment_start # None /\ open_segment_start' = None) =>
             ResolvedBy(Min(last_clock_seen_time + Sec(cfg.TAIL_AFTER_CLOCK_MISS),
                            Duration))]_vars
    /\ [][(SampleStep /\ ~(open_segment_start # None /\ open_segment_start' = None)) =>
             segments' = segments]_vars
    /\ [][pc = "after_loop" =>
             /\ pc' = "release"
             /\ IF open_segment_start # None
                THEN ResolvedBy(Duration)
                ELSE segments' = segments]_vars
    /\ [][pc = "release" => pc' = "returned" /\ segs' = segments]_vars
    /\ []((pc = "release" /\ open_segment_start # None) =>
             (Duration - open_segment_start >= Sec(cfg.MIN_SEGMENT_SEC)
                 <=> (segments # <<>> /\ Last(segments) = <<open_segment_start, Duration>>)))

ReturnedAfterBothRules ==
    /\ pc = "returned"
    /\ Len(segs) = 2
    /\ End_(segs[1]) < Duration
    /\ End_(segs[2]) = Duration

\* C27: when retrieve fails at a sampled frame the loop is left with the
\* variables as they were, no later frame is sampled, and a segment open
\* there is ended at the duration of the video, by the end-of-stream rule.
RetrieveFailed == pc \in {"after_loop", "release"} /\ frame_idx < TapeFrames

RetrieveFailureIsEndOfStream ==
    /\ [][(pc = "loop" /\ pc' = "after_loop") => detectVars' = detectVars]_vars
    /\ [][pc = "after_loop" =>
             /\ pc' = "release"
             /\ frame_idx' = frame_idx
             /\ MachineVars' # MachineVars =>
                   /\ open_segment_start # None
                   /\ Duration - open_segment_start >= Sec(cfg.MIN_SEGMENT_SEC)
                   /\ segments' = Append(segments, <<open_segment_start, Duration>>)]_vars
    /\ [][pc = "release" => pc' = "returned" /\ segs' = segments]_vars
    /\ []((RetrieveFailed /\ pc = "release" /\ open_segment_start # None) =>
             IF Duration - open_segment_start >= Sec(cfg.MIN_SEGMENT_SEC)
             THEN segments # <<>> /\ Last(segments) = <<open_segment_start, Duration>>
             ELSE \A i \in SegIdx : Start_(segments[i]) # open_segment_start)

OpenSegmentEndedAtFailure ==
    /\ RetrieveFailed
    /\ pc = "release"
    /\ open_segment_start # None
    /\ clock_missing_count > 0
    /\ last_clock_seen_time + Sec(cfg.TAIL_AFTER_CLOCK_MISS) < Duration
    /\ segments # <<>>
    /\ Last(segments) = <<open_segment_start, Duration>>

\* C22: pass 2 makes a call only after the four calls of pass 1 gave no
\* value; a text that gives a value ends the extraction with that value and
\* no call follows; without any value the extraction returns None after the
\* 4 + 24 calls.
FinePassOnlyAfterCoarse ==
    /\ []((ocr_pc \in {"fine", "fine_txt"} \/ fine_calls > 0) => coarse_calls = 4)
    /\ [][ocr_pc = "coarse_txt" =>
             IF CoarseValue(txt) # None
             THEN ocr_pc' = "returned" /\ ocr_result' = CoarseValue(txt) /\ fine_calls' = 0
             ELSE ocr_pc' \in {"coarse", "fine"} /\ (ocr_pc' = "fine" <=> coarse_calls = 4)]_vars
    /\ [][ocr_pc = "fine_txt" =>
             IF FineValue(txt) # None
             THEN ocr_pc' = "returned" /\ ocr_result' = FineValue(txt)
             ELSE ocr_pc' = "fine"]_vars
    /\ [][ocr_pc # "returned"]_vars
    /\ []((ocr_pc = "returned" /\ ocr_result = None) =>
             coarse_calls = 4 /\ fine_calls = 24)

FineTokenFound ==
    /\ ocr_pc = "returned"
    /\ ocr_result # None
    /\ coarse_calls = 4
    /\ fine_calls = 24

\* C23: a value returned is mm*60 + ss of a token of the text, mm of one or
\* two digits and ss of two digits at most 59, so within 0..5999; a text
\* whose first match has ss above 59 gives no value.
ValueIsClockToken ==
    /\ []((ocr_pc = "returned" /\ ocr_result # None) =>
             /\ ocr_result \in 0..5999
             /\ LET s == RemoveSpaces(txt)
                IN  \E p \in 1..Len(s), q \in 1..Len(s), n \in {1, 2} :
                       /\ MatchesAt(s, p, n, q)
                       /\ ToInt(SubSeq(s, q, q + 1)) \in 0..59
                       /\ ocr_result = ToInt(SubSeq(s, p, p + n - 1)) * 60
                                          + ToInt(SubSeq(s, q, q + 1)))
    /\ [][(/\ ocr_pc \in {"coarse_txt", "fine_txt"}
           /\ Search(RemoveSpaces(txt)).found
           /\ Search(RemoveSpaces(txt)).ss > 59) =>
             ocr_pc' # "returned" /\ ocr_result' = None]_vars

LargestValueRead ==
    /\ ocr_pc = "returned"
    /\ ocr_result = 5999
    /\ txt = <<"9", "9", ":", "5", "9">>

\* C28: a VOD enters split_done.json only in the step where its splitter
\* exited with 0; the splitter is run on a VOD not recorded as done, and on
\* no VOD twice; after a run that exited otherwise the record is as before
\* and the loop goes on to the next VOD, so a loop that ended by itself has
\* tried every VOD not done; the runs that exited with 0 are at most limit.
Successes == {i \in 1..Len(split_runs) : split_runs[i].status = 0}

SplitRecordsFollowSuccess ==
    /\ [][split_done' # split_done =>
             \E v \in 1..Len(vods) :
                /\ v \notin split_done
                /\ split_done' = split_done \cup {v}
                /\ split_runs' = Append(split_runs, [vod |-> v, status |-> 0])]_vars
    /\ [][split_runs' # split_runs =>
             /\ Len(split_runs') = Len(split_runs) + 1
             /\ SubSeq(split_runs', 1, Len(split_runs)) = split_runs
             /\ Last(split_runs').vod \notin split_done
             /\ Last(split_runs').status \notin {0, Interrupted} =>
                   /\ split_done' = split_done
                   /\ split_pc' = "loop"
                   /\ vod_i' = vod_i + 1]_vars
    /\ [](\A i, j \in 1..Len(split_runs) : i < j => split_runs[i].vod < split_runs[j].vod)
    /\ []((/\ split_pc = "returned"
           /\ ~(limit # None /\ Cardinality(Successes) >= limit)
           /\ \A i \in 1..Len(split_runs) : split_runs[i].status # Interrupted) =>
             \A v \in 1..Len(vods) :
                v \in split_done \/ \E i \in 1..Len(split_runs) : split_runs[i].vod = v)
    /\ [](count = Cardinality(Successes))
    /\ [](limit # None => Cardinality(Successes) <= limit)

FailureThenSuccessAtLimit ==
    /\ split_pc = "returned"
    /\ limit = 1
    /\ Len(vods) = 3
    /\ split_runs = <<[vod |-> 1, status |-> 2], [vod |-> 2, status |-> 0]>>
    /\ split_done = {2}

\* C29: the upload ends, returned or raised; it returns at the request that
\* yields the response; attempt counts every HttpError of the upload and is
\* never reset; after each of the first 5 the function waits 5 * attempt
\* seconds and goes on, and the 6th is raised.
UploadEndsWithinSixFailures ==
    /\ <>(upload_pc \in {"returned", "raised"})
    /\ [][attempt' >= attempt]_vars
    /\ [](attempt = Len(errors))
    /\ [](attempt <= 6)
    /\ [](upload_pc = "raised" <=> attempt = 6)
    /\ [](waits = [i \in 1..Min(attempt, 5) |-> 5 * i])
    /\ [](upload_pc = "returned" <=> response # None)
    /\ [][upload_pc # "loop" => UNCHANGED vars]_vars

RaisedAfterProgress ==
    /\ upload_pc = "raised"
    /\ attempt = 6
    /\ progress = 2
    /\ waits = <<5, 10, 15, 20, 25>>

\* C30: received_code is written by the handler only, with the code of a
\* request to /callback that carries a code and the expected state; the
\* event goes from clear to set only with received_code stored; main reads
\* and exchanges a code only with the event set, and the code exchanged is
\* not None and is the code of such a request.
ValidCallback(r) ==
    /\ r.path = "/callback"
    /\ r.code \in Codes
    /\ r.state = GoodState
    /\ r.state = expected_state

ExchangedCodeIsValid ==
    /\ [][(received_code' # received_code /\ auth_pc # "start") =>
             /\ ValidCallback(request)
             /\ received_code' = request.code
             /\ request \in stored']_vars
    /\ [](\A r \in stored : ValidCallback(r))
    /\ [][(event' /\ ~event) => (received_code # None /\ received_code' = received_code)]_vars
    /\ [](event => received_code # None)
    /\ [][code' # code => (event /\ code' = received_code)]_vars
    /\ [][exchanged' # exchanged => (event /\ exchanged' = code)]_vars
    /\ [](auth_pc = "done" =>
             /\ exchanged # None
             /\ \E r \in stored : r.code = exchanged)

ExchangedSecondCallback ==
    /\ auth_pc = "done"
    /\ exchanged = 2
    /\ Cardinality(stored) = 2
    /\ request.state = BadState

=============================================================================
